---- MODULE Spec2Model ----
(***************************************************************************)
(* The aggregation engine of meethere: calculateOptimalTime with its       *)
(* helper groupConsecutiveSlots, and findOptimalLocations with its helper  *)
(* calculateDistance, as written in the meetings router.                   *)
(* Around them, the routes that store and use their results: the          *)
(* participants router's POST and the meetings router's GET and PUT, with  *)
(* the meeting's expiration.                                               *)
(*                                                                         *)
(* Arrays are sequences, objects are records.  The tally object of         *)
(* calculateOptimalTime is a sequence of [key, count] entries in insertion *)
(* order (the keys always contain '-', so none is an array index and       *)
(* Object.entries lists them in insertion order).  A key is the sequence   *)
(* of the characters of the template string `${dayIndex}-${timeIndex}`.    *)
(***************************************************************************)
EXTENDS Integers, Sequences, FiniteSets, TLC

VARIABLES participants, meeting, optimalTime, optimalLocations,
          requests, now, measured, records, timeSlots, display

vars == <<participants, meeting, optimalTime, optimalLocations,
          requests, now, measured, records, timeSlots, display>>

\* the Participant collection, the rows of the availability grid and the
\* ranges as the meeting page shows them
storeVars == <<records, timeSlots, display>>

\* the requests in progress, the clock and the distance last measured
serverVars == <<requests, now, measured, storeVars>>

(***************************************************************************)
(* Bounds of the model.                                                    *)
(***************************************************************************)
MaxParticipants == 3
MaxDayIndex == 1
MaxTimeIndex == 2
MaxSlots == 2

(***************************************************************************)
(* Values.                                                                 *)
(***************************************************************************)
Null == [kind |-> "null"]
Pending == [kind |-> "pending"]
NoLocation == [kind |-> "absent"]

Slot(d, t) == [dayIndex |-> d, timeIndex |-> t]

Participant(a, l) == [availability |-> a, location |-> l]

(***************************************************************************)
(* `${slot.dayIndex}-${slot.timeIndex}` and key.split('-').map(Number).    *)
(***************************************************************************)
DigitChars == <<"0", "1", "2", "3", "4", "5", "6", "7", "8", "9">>

RECURSIVE Digits(_)
Digits(n) == IF n < 10 THEN <<DigitChars[n + 1]>>
             ELSE Digits(n \div 10) \o <<DigitChars[(n % 10) + 1]>>

NumberToString(n) == IF n < 0 THEN <<"-">> \o Digits(0 - n) ELSE Digits(n)

SlotKey(slot) ==
  NumberToString(slot.dayIndex) \o <<"-">> \o NumberToString(slot.timeIndex)

\* s.split('-'): the pieces of s between the '-' characters, empty ones kept
RECURSIVE SplitDash(_, _, _)
SplitDash(s, piece, pieces) ==
  IF s = <<>> THEN Append(pieces, piece)
  ELSE IF Head(s) = "-" THEN SplitDash(Tail(s), <<>>, Append(pieces, piece))
  ELSE SplitDash(Tail(s), Append(piece, Head(s)), pieces)

DigitValue(c) == (CHOOSE i \in 1..10 : DigitChars[i] = c) - 1

\* Number(piece): the empty string is 0, a digit string its decimal value
RECURSIVE ToNumber(_, _)
ToNumber(piece, acc) ==
  IF piece = <<>> THEN acc
  ELSE ToNumber(Tail(piece), 10 * acc + DigitValue(Head(piece)))

\* variant: the two indices taken in the wrong order
ParseKeySwapped(key) ==
  LET pieces == SplitDash(key, <<>>, <<>>)
  IN  Slot(ToNumber(pieces[2], 0), ToNumber(pieces[1], 0))

\* const [dayIndex, timeIndex] = key.split('-').map(Number)
ParseKey(key) ==
  LET pieces == SplitDash(key, <<>>, <<>>)
  IN  Slot(ToNumber(pieces[1], 0), ToNumber(pieces[2], 0))

\* variant: timeSlotCounts[key] = 1, the earlier count forgotten
CountSlotOverwrite(counts, slot) ==
  LET key == SlotKey(slot)
  IN  IF \E i \in 1..Len(counts) : counts[i].key = key
      THEN counts
      ELSE Append(counts, [key |-> key, count |-> 1])

(***************************************************************************)
(* timeSlotCounts[key] = (timeSlotCounts[key] || 0) + 1                    *)
(***************************************************************************)
CountSlot(counts, slot) ==
  LET key == SlotKey(slot)
  IN  IF \E i \in 1..Len(counts) : counts[i].key = key
      THEN [i \in 1..Len(counts) |->
              IF counts[i].key = key
              THEN [counts[i] EXCEPT !.count = @ + 1]
              ELSE counts[i]]
      ELSE Append(counts, [key |-> key, count |-> 1])

\* participant.availability.forEach(slot => ...)
RECURSIVE CountAvailability(_, _)
CountAvailability(counts, availability) ==
  IF availability = <<>> THEN counts
  ELSE CountAvailability(CountSlot(counts, Head(availability)), Tail(availability))

\* participants.forEach(participant => ...)
RECURSIVE CountParticipants(_, _)
CountParticipants(counts, ps) ==
  IF ps = <<>> THEN counts
  ELSE CountParticipants(CountAvailability(counts, Head(ps).availability), Tail(ps))

(***************************************************************************)
(* groupConsecutiveSlots                                                   *)
(***************************************************************************)
\* variant: a comparator that forgets the day
CompareSlotsByTime(a, b) == a.timeIndex - b.timeIndex

\* the comparator of the sort: negative, zero or positive
CompareSlots(a, b) ==
  IF a.dayIndex # b.dayIndex THEN a.dayIndex - b.dayIndex
  ELSE a.timeIndex - b.timeIndex

\* Array.prototype.sort is stable: x goes after every element that does not
\* compare greater than it
RECURSIVE InsertSorted(_, _)
InsertSorted(sorted, x) ==
  IF sorted = <<>> THEN <<x>>
  ELSE IF CompareSlots(Head(sorted), x) <= 0
       THEN <<Head(sorted)>> \o InsertSorted(Tail(sorted), x)
       ELSE <<x>> \o sorted

RECURSIVE SortSlots(_, _)
SortSlots(slots, sorted) ==
  IF slots = <<>> THEN sorted
  ELSE SortSlots(Tail(slots), InsertSorted(sorted, Head(slots)))

NewGroup(slot) ==
  [dayIndex |-> slot.dayIndex,
   startTimeIndex |-> slot.timeIndex,
   endTimeIndex |-> slot.timeIndex,
   participantCount |-> slot.participantCount,
   everyoneAvailable |-> slot.everyoneAvailable]

\* variant: a slot extends the group only right after the group's start
RECURSIVE GroupLoopFromStart(_, _, _)
GroupLoopFromStart(rest, currentGroup, grouped) ==
  IF rest = <<>> THEN Append(grouped, currentGroup)
  ELSE LET slot == Head(rest)
       IN  IF slot.dayIndex = currentGroup.dayIndex
              /\ slot.timeIndex = currentGroup.startTimeIndex + 1
           THEN GroupLoopFromStart(Tail(rest),
                          [currentGroup EXCEPT !.endTimeIndex = slot.timeIndex],
                          grouped)
           ELSE GroupLoopFromStart(Tail(rest), NewGroup(slot),
                                   Append(grouped, currentGroup))

\* variant: the last group is never pushed
RECURSIVE GroupLoopDropLast(_, _, _)
GroupLoopDropLast(rest, currentGroup, grouped) ==
  IF rest = <<>> THEN grouped
  ELSE LET slot == Head(rest)
       IN  IF slot.dayIndex = currentGroup.dayIndex
              /\ slot.timeIndex = currentGroup.endTimeIndex + 1
           THEN GroupLoopDropLast(Tail(rest),
                          [currentGroup EXCEPT !.endTimeIndex = slot.timeIndex],
                          grouped)
           ELSE GroupLoopDropLast(Tail(rest), NewGroup(slot),
                                  Append(grouped, currentGroup))

\* the loop over sortedSlots[1..], then grouped.push(currentGroup)
RECURSIVE GroupLoop(_, _, _)
GroupLoop(rest, currentGroup, grouped) ==
  IF rest = <<>> THEN Append(grouped, currentGroup)
  ELSE LET slot == Head(rest)
       IN  IF slot.dayIndex = currentGroup.dayIndex
              /\ slot.timeIndex = currentGroup.endTimeIndex + 1
           THEN GroupLoop(Tail(rest),
                          [currentGroup EXCEPT !.endTimeIndex = slot.timeIndex],
                          grouped)
           ELSE GroupLoop(Tail(rest), NewGroup(slot), Append(grouped, currentGroup))

\* variant: the slots grouped in the order they come, without the sort
groupConsecutiveSlotsUnsorted(slots) ==
  IF Len(slots) = 0 THEN <<>>
  ELSE GroupLoop(Tail(slots), NewGroup(Head(slots)), <<>>)

groupConsecutiveSlots(slots) ==
  IF Len(slots) = 0 THEN <<>>
  ELSE LET sortedSlots == SortSlots(slots, <<>>)
       IN  GroupLoop(Tail(sortedSlots), NewGroup(Head(sortedSlots)), <<>>)

(***************************************************************************)
(* calculateOptimalTime                                                    *)
(***************************************************************************)
PoolSlot(key, count, everyone) ==
  LET s == ParseKey(key)
  IN  [dayIndex |-> s.dayIndex, timeIndex |-> s.timeIndex,
       participantCount |-> count, everyoneAvailable |-> everyone]

\* variant: only the first slot with the highest count is kept, ties are dropped
ScanEntryFirstBest(acc, entry, totalParticipants) ==
  IF entry.count = totalParticipants
  THEN [acc EXCEPT !.perfectSlots =
          Append(@, PoolSlot(entry.key, entry.count, TRUE))]
  ELSE IF entry.count > acc.maxCount
  THEN [acc EXCEPT !.maxCount = entry.count,
                   !.bestAlternativeSlots =
                      <<PoolSlot(entry.key, entry.count, FALSE)>>]
  ELSE acc

\* variant: a new highest count does not clear the slots kept so far
ScanEntryNoClear(acc, entry, totalParticipants) ==
  IF entry.count = totalParticipants
  THEN [acc EXCEPT !.perfectSlots =
          Append(@, PoolSlot(entry.key, entry.count, TRUE))]
  ELSE IF entry.count > acc.maxCount
  THEN [acc EXCEPT !.maxCount = entry.count,
                   !.bestAlternativeSlots =
                      Append(@, PoolSlot(entry.key, entry.count, FALSE))]
  ELSE IF entry.count = acc.maxCount
  THEN [acc EXCEPT !.bestAlternativeSlots =
          Append(@, PoolSlot(entry.key, entry.count, FALSE))]
  ELSE acc

\* variant: the highest count is tracked before the test for everyone
ScanEntryMaxFirst(acc, entry, totalParticipants) ==
  IF entry.count > acc.maxCount
  THEN [acc EXCEPT !.maxCount = entry.count,
                   !.bestAlternativeSlots =
                      <<PoolSlot(entry.key, entry.count, FALSE)>>]
  ELSE IF entry.count = totalParticipants
  THEN [acc EXCEPT !.perfectSlots =
          Append(@, PoolSlot(entry.key, entry.count, TRUE))]
  ELSE IF entry.count = acc.maxCount
  THEN [acc EXCEPT !.bestAlternativeSlots =
          Append(@, PoolSlot(entry.key, entry.count, FALSE))]
  ELSE acc

\* one iteration of the loop over Object.entries(timeSlotCounts)
ScanEntry(acc, entry, totalParticipants) ==
  IF entry.count = totalParticipants
  THEN [acc EXCEPT !.perfectSlots =
          Append(@, PoolSlot(entry.key, entry.count, TRUE))]
  ELSE IF entry.count > acc.maxCount
  THEN [acc EXCEPT !.maxCount = entry.count,
                   !.bestAlternativeSlots =
                      <<PoolSlot(entry.key, entry.count, FALSE)>>]
  ELSE IF entry.count = acc.maxCount
  THEN [acc EXCEPT !.bestAlternativeSlots =
          Append(@, PoolSlot(entry.key, entry.count, FALSE))]
  ELSE acc

RECURSIVE ScanEntries(_, _, _)
ScanEntries(acc, entries, totalParticipants) ==
  IF entries = <<>> THEN acc
  ELSE ScanEntries(ScanEntry(acc, Head(entries), totalParticipants),
                   Tail(entries), totalParticipants)

EveryoneMessage(n) == [text |-> "where everyone is available",
                        ranges |-> n, plural |-> n > 1]

BestMessage(maxCount, total) == [text |-> "Best option",
                                 available |-> maxCount, outOf |-> total]

calculateOptimalTime(ps) ==
  IF Len(ps) = 0 THEN Null
  ELSE
    LET totalParticipants == Len(ps)
        timeSlotCounts == CountParticipants(<<>>, ps)
        pools == ScanEntries([perfectSlots |-> <<>>,
                              bestAlternativeSlots |-> <<>>,
                              maxCount |-> 0],
                             timeSlotCounts, totalParticipants)
        groupedPerfectSlots == groupConsecutiveSlots(pools.perfectSlots)
        groupedBestAlternativeSlots ==
          groupConsecutiveSlots(pools.bestAlternativeSlots)
    IN  IF Len(groupedPerfectSlots) > 0
        THEN [kind |-> "recommendation",
              slots |-> groupedPerfectSlots,
              everyoneAvailable |-> TRUE,
              message |-> EveryoneMessage(Len(groupedPerfectSlots))]
        ELSE IF Len(groupedBestAlternativeSlots) > 0
        THEN [kind |-> "recommendation",
              slots |-> groupedBestAlternativeSlots,
              everyoneAvailable |-> FALSE,
              message |-> BestMessage(pools.maxCount, totalParticipants)]
        ELSE Null

(***************************************************************************)
(* calculateDistance (Haversine), in fixed point.                          *)
(*                                                                         *)
(* Coordinates are whole multiples of 0.00001 degree, the precision of the *)
(* catalog: lat 40.42833 is 4042833.  Angles and cosines carry six         *)
(* decimals (FixedOne is 1.0).  A distance is a whole number of            *)
(* decimetres.  The points of the model lie on the campus, where Δφ/2 and  *)
(* Δλ/2 stay below 0.001 rad, so that sin x = x and                        *)
(* atan2(√a, √(1 − a)) = √a to nine digits:                                *)
(*      R · c = R · (π / 180) · √(Δφ² + cos φ1 · cos φ2 · Δλ²)             *)
(* with Δφ, Δλ in degrees.                                                 *)
(***************************************************************************)
R == 6371000

FixedOne == 1000 * 1000

\* Math.PI with six decimals
PiE6 == 3141593

\* x * y for two fixed-point numbers, without leaving 32 bits
MulFix(x, y) ==
  LET xh == x \div 1000
      xl == x % 1000
      yh == y \div 1000
      yl == y % 1000
  IN  xh * yh + (xh * yl + xl * yh) \div 1000 + (xl * yl) \div FixedOne

\* (lat * Math.PI) / 180, lat in coordinate units, the result in fixed point
Radians(lat) ==
  LET h == lat \div 1000
      l == lat % 1000
  IN  (h * (PiE6 \div 18)) \div 1000 + (l * (PiE6 \div 18)) \div FixedOne

\* Math.cos, by its series up to x^10 / 10!
Cos(x) ==
  LET x2 == MulFix(x, x)
      t1 == x2 \div 2
      t2 == MulFix(t1, x2) \div 12
      t3 == MulFix(t2, x2) \div 30
      t4 == MulFix(t3, x2) \div 56
      t5 == MulFix(t4, x2) \div 90
  IN  FixedOne - t1 + t2 - t3 + t4 - t5

\* Math.sqrt on whole numbers: the largest s with s * s <= n
RECURSIVE SqrtBetween(_, _, _)
SqrtBetween(n, lo, hi) ==
  IF hi - lo <= 1 THEN lo
  ELSE LET mid == (lo + hi) \div 2
       IN  IF mid * mid <= n THEN SqrtBetween(n, mid, hi)
           ELSE SqrtBetween(n, lo, mid)

Sqrt(n) == SqrtBetween(n, 0, 46341)

\* variant: the cosine of the first latitude taken twice
calculateDistanceCosSquared(lat1, lng1, lat2, lng2) ==
  LET phi1 == Radians(lat1)
      dPhi == lat2 - lat1
      dLambda == lng2 - lng1
      cosCos == MulFix(Cos(phi1), Cos(phi1))
      dLambda2 == dLambda * dLambda
      a == 100 * dPhi * dPhi
           + cosCos * (dLambda2 \div 10000)
           + ((cosCos \div 10) * (dLambda2 % 10000)) \div 1000
      c == Sqrt(a)
      metresPerDegree == ((R \div 1000) * (PiE6 \div 10)) \div 180
  IN  (c * (metresPerDegree \div 1000)) \div 10000

calculateDistance(lat1, lng1, lat2, lng2) ==
  LET phi1 == Radians(lat1)
      phi2 == Radians(lat2)
      dPhi == lat2 - lat1
      dLambda == lng2 - lng1
      cosCos == MulFix(Cos(phi1), Cos(phi2))
      dLambda2 == dLambda * dLambda
      \* 100 * (Δφ² + cos φ1 · cos φ2 · Δλ²), in squared coordinate units
      a == 100 * dPhi * dPhi
           + cosCos * (dLambda2 \div 10000)
           + ((cosCos \div 10) * (dLambda2 % 10000)) \div 1000
      \* tenths of a coordinate unit
      c == Sqrt(a)
      \* R · π / 180, in metres per degree, times 100
      metresPerDegree == ((R \div 1000) * (PiE6 \div 10)) \div 180
  IN  (c * (metresPerDegree \div 1000)) \div 10000

(***************************************************************************)
(* findOptimalLocations                                                    *)
(***************************************************************************)
\* id, abbr, lat, lng of the catalog (the names are left out)
campusBuildings ==
  <<
   [id |-> 1, abbr |-> "LWSN", lat |-> 4042833, lng |-> -8691620],
   [id |-> 2, abbr |-> "WALC", lat |-> 4042600, lng |-> -8691300],
   [id |-> 3, abbr |-> "MATH", lat |-> 4042500, lng |-> -8691500],
   [id |-> 4, abbr |-> "EE", lat |-> 4042670, lng |-> -8691620],
   [id |-> 5, abbr |-> "HAAS", lat |-> 4042540, lng |-> -8691540],
   [id |-> 6, abbr |-> "REC", lat |-> 4042540, lng |-> -8691540],
   [id |-> 7, abbr |-> "SC", lat |-> 4042540, lng |-> -8691540],
   [id |-> 8, abbr |-> "PHYS", lat |-> 4042670, lng |-> -8691460],
   [id |-> 9, abbr |-> "LILY", lat |-> 4042360, lng |-> -8691700],
   [id |-> 10, abbr |-> "CL50", lat |-> 4042540, lng |-> -8691540],
   [id |-> 11, abbr |-> "ARMS", lat |-> 4043100, lng |-> -8691450],
   [id |-> 12, abbr |-> "GRIS", lat |-> 4042670, lng |-> -8691620],
   [id |-> 13, abbr |-> "ME", lat |-> 4042670, lng |-> -8691620],
   [id |-> 14, abbr |-> "MSEE", lat |-> 4042790, lng |-> -8691540],
   [id |-> 15, abbr |-> "CIVL", lat |-> 4042670, lng |-> -8691460],
   [id |-> 16, abbr |-> "CHAF", lat |-> 4041510, lng |-> -8692080],
   [id |-> 17, abbr |-> "HICKS", lat |-> 4042540, lng |-> -8691780],
   [id |-> 18, abbr |-> "HSSE", lat |-> 4042600, lng |-> -8691300],
   [id |-> 19, abbr |-> "MLIB", lat |-> 4042500, lng |-> -8691500],
   [id |-> 20, abbr |-> "PMU", lat |-> 4042480, lng |-> -8691100],
   [id |-> 21, abbr |-> "STEW", lat |-> 4042600, lng |-> -8691300],
   [id |-> 22, abbr |-> "CoRec", lat |-> 4042920, lng |-> -8692030],
   [id |-> 23, abbr |-> "KRAN", lat |-> 4042540, lng |-> -8691860],
   [id |-> 24, abbr |-> "RAWL", lat |-> 4042540, lng |-> -8691860],
   [id |-> 25, abbr |-> "KRCH", lat |-> 4042920, lng |-> -8692030],
   [id |-> 26, abbr |-> "WTHR", lat |-> 4042540, lng |-> -8691540],
   [id |-> 27, abbr |-> "BRNG", lat |-> 4042540, lng |-> -8691540],
   [id |-> 28, abbr |-> "BCHM", lat |-> 4042360, lng |-> -8691780],
   [id |-> 29, abbr |-> "HANS", lat |-> 4042360, lng |-> -8691860],
   [id |-> 30, abbr |-> "SMTH", lat |-> 4042410, lng |-> -8691860],
   [id |-> 31, abbr |-> "PFEN", lat |-> 4042410, lng |-> -8691860],
   [id |-> 32, abbr |-> "AGAD", lat |-> 4042410, lng |-> -8691860],
   [id |-> 33, abbr |-> "PAO", lat |-> 4042670, lng |-> -8691380],
   [id |-> 34, abbr |-> "PRUF", lat |-> 4042670, lng |-> -8691380],
   [id |-> 35, abbr |-> "ELLT", lat |-> 4042790, lng |-> -8691490],
   [id |-> 36, abbr |-> "PRCE", lat |-> 4042540, lng |-> -8691540],
   [id |-> 37, abbr |-> "EAR", lat |-> 4043180, lng |-> -8692510],
   [id |-> 38, abbr |-> "FST", lat |-> 4043180, lng |-> -8692510],
   [id |-> 39, abbr |-> "HILL", lat |-> 4043430, lng |-> -8692510],
   [id |-> 40, abbr |-> "HARR", lat |-> 4043430, lng |-> -8692510],
   [id |-> 41, abbr |-> "TARK", lat |-> 4043050, lng |-> -8692240],
   [id |-> 42, abbr |-> "WILY", lat |-> 4043050, lng |-> -8692160],
   [id |-> 43, abbr |-> "WNDS", lat |-> 4042920, lng |-> -8692030],
   [id |-> 44, abbr |-> "HAWK", lat |-> 4042540, lng |-> -8691860],
   [id |-> 45, abbr |-> "HOVD", lat |-> 4042670, lng |-> -8691460],
   [id |-> 46, abbr |-> "SCHL", lat |-> 4042670, lng |-> -8691460],
   [id |-> 47, abbr |-> "YONG", lat |-> 4042540, lng |-> -8691860],
   [id |-> 48, abbr |-> "MACK", lat |-> 4043330, lng |-> -8691610],
   [id |-> 49, abbr |-> "ROSS", lat |-> 4043560, lng |-> -8692320],
   [id |-> 50, abbr |-> "MAC", lat |-> 4043560, lng |-> -8692320],
   [id |-> 51, abbr |-> "KNOY", lat |-> 4042670, lng |-> -8691620],
   [id |-> 52, abbr |-> "UNIV", lat |-> 4042540, lng |-> -8691540],
   [id |-> 53, abbr |-> "BEER", lat |-> 4042540, lng |-> -8691540],
   [id |-> 54, abbr |-> "HEAV", lat |-> 4042540, lng |-> -8691540],
   [id |-> 55, abbr |-> "STON", lat |-> 4042410, lng |-> -8691860],
   [id |-> 56, abbr |-> "PHAR", lat |-> 4042790, lng |-> -8691380],
   [id |-> 57, abbr |-> "NURS", lat |-> 4042790, lng |-> -8691380]
  >>

\* location && location.coordinates
HasCoordinates(location) ==
  location # NoLocation /\ location.coordinates # Null

RECURSIVE ParticipantCoordinates(_)
ParticipantCoordinates(ps) ==
  IF ps = <<>> THEN <<>>
  ELSE (IF HasCoordinates(Head(ps).location)
        THEN <<Head(ps).location.coordinates>> ELSE <<>>)
       \o ParticipantCoordinates(Tail(ps))

\* variant: the creator's coordinates are left out
ParticipantLocationsNoCreator(ps, m) == ParticipantCoordinates(ps)

\* participantLocations: the creator's coordinates first, then the participants'
ParticipantLocations(ps, m) ==
  (IF HasCoordinates(m.creatorLocation)
   THEN <<m.creatorLocation.coordinates>> ELSE <<>>)
  \o ParticipantCoordinates(ps)

\* variant: maxDistance takes each distance in turn instead of the largest
RECURSIVE SumDistancesLastDistance(_, _, _)
SumDistancesLastDistance(building, locations, acc) ==
  IF locations = <<>> THEN acc
  ELSE LET distance == calculateDistance(building.lat, building.lng,
                                         Head(locations).lat, Head(locations).lng)
       IN  SumDistancesLastDistance(building, Tail(locations),
                        [totalDistance |-> acc.totalDistance + distance,
                         maxDistance |-> distance])

\* participantLocations.forEach(location => ...): totalDistance and maxDistance
RECURSIVE SumDistances(_, _, _)
SumDistances(building, locations, acc) ==
  IF locations = <<>> THEN acc
  ELSE LET distance == calculateDistance(building.lat, building.lng,
                                         Head(locations).lat, Head(locations).lng)
       IN  SumDistances(building, Tail(locations),
                        [totalDistance |-> acc.totalDistance + distance,
                         maxDistance |-> IF distance > acc.maxDistance
                                         THEN distance ELSE acc.maxDistance])

\* Math.round(num / den) for num >= 0, den > 0: halves go up
Round(num, den) == (2 * num + den) \div (2 * den)

\* variant: the fairness score taken from the total instead of the mean
BuildingScoreFromTotal(building, locations) ==
  LET n == Len(locations)
      d == SumDistances(building, locations,
                        [totalDistance |-> 0, maxDistance |-> 0])
  IN  [id |-> building.id, abbr |-> building.abbr,
       lat |-> building.lat, lng |-> building.lng,
       avgDistance |-> Round(d.totalDistance, 10 * n),
       maxDistance |-> Round(d.maxDistance, 10),
       totalDistance |-> Round(d.totalDistance, 10),
       fairnessScore |-> Round(d.totalDistance - d.maxDistance, 10)]

\* the score of one building; the distances are decimetres, the fields metres
BuildingScore(building, locations) ==
  LET n == Len(locations)
      d == SumDistances(building, locations,
                        [totalDistance |-> 0, maxDistance |-> 0])
  IN  [id |-> building.id, abbr |-> building.abbr,
       lat |-> building.lat, lng |-> building.lng,
       avgDistance |-> Round(d.totalDistance, 10 * n),
       maxDistance |-> Round(d.maxDistance, 10),
       totalDistance |-> Round(d.totalDistance, 10),
       fairnessScore |-> Round(n * d.maxDistance - d.totalDistance, 10 * n)]

\* variant: the fairness score as the sort key
CompareScoresByFairness(a, b) == a.fairnessScore - b.fairnessScore

\* the comparator of buildingScores.sort
CompareScores(a, b) == a.avgDistance - b.avgDistance

\* buildingScores.sort(...), a stable merge sort: of two scores that compare
\* equal the one listed first stays first
RECURSIVE MergeScores(_, _)
MergeScores(left, right) ==
  IF left = <<>> THEN right
  ELSE IF right = <<>> THEN left
  ELSE IF CompareScores(Head(right), Head(left)) < 0
       THEN <<Head(right)>> \o MergeScores(left, Tail(right))
       ELSE <<Head(left)>> \o MergeScores(Tail(left), right)

RECURSIVE SortScores(_)
SortScores(scores) ==
  IF Len(scores) <= 1 THEN scores
  ELSE LET mid == Len(scores) \div 2
       IN  MergeScores(SortScores(SubSeq(scores, 1, mid)),
                       SortScores(SubSeq(scores, mid + 1, Len(scores))))

\* buildingScores.slice(0, 5)
TopK == 5

\* variant: slice(0, 5) taken before the sort
findOptimalLocationsSliceFirst(ps, m) ==
  LET participantLocations == ParticipantLocations(ps, m)
  IN  IF Len(participantLocations) = 0 THEN <<>>
      ELSE LET buildingScores ==
                 [i \in 1..Len(campusBuildings) |->
                    BuildingScore(campusBuildings[i], participantLocations)]
           IN  SortScores(SubSeq(buildingScores, 1,
                      IF Len(buildingScores) < TopK THEN Len(buildingScores) ELSE TopK))

\* variant: no early return for an empty participantLocations; the scores of
\* the catalog come back with the distances of no point
findOptimalLocationsNoEarlyReturn(ps, m) ==
  LET participantLocations == ParticipantLocations(ps, m)
      buildingScores ==
        [i \in 1..Len(campusBuildings) |->
           IF Len(participantLocations) = 0
           THEN [id |-> campusBuildings[i].id, abbr |-> campusBuildings[i].abbr,
                 lat |-> campusBuildings[i].lat, lng |-> campusBuildings[i].lng,
                 avgDistance |-> 0, maxDistance |-> 0,
                 totalDistance |-> 0, fairnessScore |-> 0]
           ELSE BuildingScore(campusBuildings[i], participantLocations)]
      sortedScores == SortScores(buildingScores)
  IN  SubSeq(sortedScores, 1,
             IF Len(sortedScores) < TopK THEN Len(sortedScores) ELSE TopK)

findOptimalLocations(ps, m) ==
  LET participantLocations == ParticipantLocations(ps, m)
  IN  IF Len(participantLocations) = 0 THEN <<>>
      ELSE LET buildingScores ==
                 [i \in 1..Len(campusBuildings) |->
                    BuildingScore(campusBuildings[i], participantLocations)]
               sortedScores == SortScores(buildingScores)
           IN  SubSeq(sortedScores, 1,
                      IF Len(sortedScores) < TopK THEN Len(sortedScores) ELSE TopK)

(***************************************************************************)
(* The inputs of the time recommendation: the availability a participant   *)
(* submits is the array made from the grid's Set of selected cells:        *)
(* distinct cells of the grid, in the order they were selected.            *)
(***************************************************************************)
GridSlots == {Slot(d, t) : d \in 0..MaxDayIndex, t \in 0..MaxTimeIndex}

RECURSIVE SelectionsOfLen(_)
SelectionsOfLen(n) ==
  IF n = 0 THEN {<<>>}
  ELSE {Append(a, s) : a \in SelectionsOfLen(n - 1), s \in GridSlots}

NoDuplicates(a) == \A i, j \in 1..Len(a) : a[i] = a[j] => i = j

GridSelections ==
  {a \in UNION {SelectionsOfLen(n) : n \in 0..MaxSlots} : NoDuplicates(a)}

NoMeeting == [creatorLocation |-> NoLocation]

\* a meeting as created: no participants, nothing computed yet
Init ==
  /\ participants = <<>>
  /\ meeting = NoMeeting
  /\ optimalTime = Pending
  /\ optimalLocations = Pending
  /\ requests = <<>>
  /\ now = 0
  /\ measured = Pending
  /\ records = {}
  /\ timeSlots = Pending
  /\ display = Pending

\* router.post('/') of the participants router: the participant is saved
\* with the availability of the request and pushed onto meeting.participants
SubmitAvailability ==
  /\ optimalTime = Pending
  /\ Len(participants) < MaxParticipants
  /\ \E a \in GridSelections :
       participants' = Append(participants, Participant(a, NoLocation))
  /\ UNCHANGED <<meeting, optimalTime, optimalLocations>>
  /\ UNCHANGED serverVars

\* variant: every participant's availability sorted in place while counting
CalculateOptimalTimeSortingInPlace ==
  /\ optimalTime = Pending
  /\ optimalTime' = calculateOptimalTime(participants)
  /\ participants' =
       [i \in 1..Len(participants) |->
          [participants[i] EXCEPT !.availability = SortSlots(@, <<>>)]]
  /\ UNCHANGED <<meeting, optimalLocations>>
  /\ UNCHANGED serverVars

\* router.put('/:shareLink'):
\* const optimalTime = calculateOptimalTime(meeting.participants)
CalculateOptimalTime ==
  /\ optimalTime = Pending
  /\ optimalTime' = calculateOptimalTime(participants)
  /\ UNCHANGED <<participants, meeting, optimalLocations>>
  /\ UNCHANGED serverVars

Next == SubmitAvailability \/ CalculateOptimalTime

Spec == Init /\ [][Next]_vars

(***************************************************************************)
(* The inputs of the location ranking: the creator's location and the      *)
(* participants' locations, each absent, without coordinates, or at one of *)
(* a few points of the campus.                                             *)
(***************************************************************************)
MaxLocated == 2

Coordinates(lat, lng) == [lat |-> lat, lng |-> lng]

CampusPoints ==
  {Coordinates(4042833, -8691620), Coordinates(4042600, -8691300),
   Coordinates(4042540, -8691540), Coordinates(4042700, -8691500)}

Locations ==
  {NoLocation, [coordinates |-> Null]}
    \cup {[coordinates |-> p] : p \in CampusPoints}

\* a meeting as created, with the creator's location or without
InitLoc ==
  /\ participants = <<>>
  /\ meeting \in [creatorLocation : Locations \ {[coordinates |-> Null]}]
  /\ optimalTime = Pending
  /\ optimalLocations = Pending
  /\ requests = <<>>
  /\ now = 0
  /\ measured = Pending
  /\ records = {}
  /\ timeSlots = Pending
  /\ display = Pending

\* router.post('/') of the participants router, with the location of the request
SubmitLocation ==
  /\ optimalLocations = Pending
  /\ Len(participants) < MaxLocated
  /\ \E l \in Locations :
       participants' = Append(participants, Participant(<<>>, l))
  /\ UNCHANGED <<meeting, optimalTime, optimalLocations>>
  /\ UNCHANGED serverVars

\* router.get('/:shareLink/optimal-locations'):
\* const optimalLocations = findOptimalLocations(meeting.participants, meeting)
FindOptimalLocations ==
  /\ optimalLocations = Pending
  /\ optimalLocations' = findOptimalLocations(participants, meeting)
  /\ UNCHANGED <<participants, meeting, optimalTime>>
  /\ UNCHANGED serverVars

NextLoc == SubmitLocation \/ FindOptimalLocations

SpecLoc == InitLoc /\ [][NextLoc]_vars

(***************************************************************************)
(* The availabilities the participant schema accepts: arrays of            *)
(* {dayIndex: Number, timeIndex: Number}, the numbers of any sign and the  *)
(* same slot any number of times.  router.post('/') saves req.body's       *)
(* availability as it comes.                                               *)
(***************************************************************************)
MaxRawParticipants == 2

RawSlots == {Slot(d, t) : d \in -1..MaxDayIndex, t \in -1..MaxTimeIndex}

RECURSIVE RawSelectionsOfLen(_)
RawSelectionsOfLen(n) ==
  IF n = 0 THEN {<<>>}
  ELSE {Append(a, s) : a \in RawSelectionsOfLen(n - 1), s \in RawSlots}

RawSelections == UNION {RawSelectionsOfLen(n) : n \in 0..MaxSlots}

\* router.post('/') of the participants router, with any availability
SubmitRawAvailability ==
  /\ optimalTime = Pending
  /\ Len(participants) < MaxRawParticipants
  /\ \E a \in RawSelections :
       participants' = Append(participants, Participant(a, NoLocation))
  /\ UNCHANGED <<meeting, optimalTime, optimalLocations>>
  /\ UNCHANGED serverVars

NextRaw == SubmitRawAvailability \/ CalculateOptimalTime

SpecRaw == Init /\ [][NextRaw]_vars

(***************************************************************************)
(* calculateDistance on its own: two points, of the catalog or of the      *)
(* campus, measured from the first to the second, from the second to the   *)
(* first, and from the first to itself.                                    *)
(***************************************************************************)
MeasuredPoints ==
  {Coordinates(campusBuildings[k].lat, campusBuildings[k].lng) :
     k \in 1..Len(campusBuildings)} \cup CampusPoints

InitDist ==
  /\ participants = <<>>
  /\ meeting = NoMeeting
  /\ optimalTime = Pending
  /\ optimalLocations = Pending
  /\ requests = <<>>
  /\ now = 0
  /\ measured \in [kind : {"points"}, a : MeasuredPoints, b : MeasuredPoints]
  /\ records = {}
  /\ timeSlots = Pending
  /\ display = Pending

MeasureDistance ==
  /\ measured.kind = "points"
  /\ measured' =
       [kind |-> "distances", a |-> measured.a, b |-> measured.b,
        ab |-> calculateDistance(measured.a.lat, measured.a.lng,
                                 measured.b.lat, measured.b.lng),
        ba |-> calculateDistance(measured.b.lat, measured.b.lng,
                                 measured.a.lat, measured.a.lng),
        aa |-> calculateDistance(measured.a.lat, measured.a.lng,
                                 measured.a.lat, measured.a.lng)]
  /\ UNCHANGED <<participants, meeting, optimalTime, optimalLocations,
                 requests, now>>
  /\ UNCHANGED storeVars

NextDist == MeasureDistance

SpecDist == InitDist /\ [][NextDist]_vars

(***************************************************************************)
(* Both engine functions on one meeting: a participant is saved with the   *)
(* availability and the location of one request, and the two routes        *)
(* compute from the same participants.                                     *)
(***************************************************************************)
MaxEngineParticipants == 2

EngineSelections ==
  {<<>>, <<Slot(0, 1)>>, <<Slot(0, 1), Slot(0, 0)>>, <<Slot(1, 0), Slot(0, 1)>>}

EngineLocations == {NoLocation, [coordinates |-> Coordinates(4042600, -8691300)]}

InitEngine ==
  /\ participants = <<>>
  /\ meeting \in [creatorLocation :
                    {NoLocation, [coordinates |-> Coordinates(4042700, -8691500)]}]
  /\ optimalTime = Pending
  /\ optimalLocations = Pending
  /\ requests = <<>>
  /\ now = 0
  /\ measured = Pending
  /\ records = {}
  /\ timeSlots = Pending
  /\ display = Pending

\* router.post('/') of the participants router: availability and location
SubmitParticipant ==
  /\ optimalTime = Pending
  /\ optimalLocations = Pending
  /\ Len(participants) < MaxEngineParticipants
  /\ \E a \in EngineSelections, l \in EngineLocations :
       participants' = Append(participants, Participant(a, l))
  /\ UNCHANGED <<meeting, optimalTime, optimalLocations>>
  /\ UNCHANGED serverVars

NextEngine == SubmitParticipant \/ CalculateOptimalTime \/ FindOptimalLocations

SpecEngine == InitEngine /\ [][NextEngine]_vars

(***************************************************************************)
(* The server with several clients.  A client loads the meeting (GET       *)
(* /api/meetings/:shareLink), submits (POST /api/participants), asks for   *)
(* the recalculation (PUT /api/meetings/:shareLink) and loads the meeting  *)
(* again.  A handler runs up to its next await on the database and the     *)
(* handlers of different requests interleave there.  participants is the   *)
(* meeting's participants array as populate() returns it, optimalTime the  *)
(* meeting's stored optimalTime.  Times are whole numbers: a day of        *)
(* availableDays stands for the instant its window ends.                   *)
(***************************************************************************)
MaxClients == 2

MaxNow == 2

Clients == 1..MaxClients

\* what a client of the grid submits: at least one slot and a location
ClientSelections == {<<s>> : s \in GridSlots}

ClientLocations ==
  {[coordinates |-> Coordinates(4042600, -8691300)],
   [coordinates |-> Coordinates(4042700, -8691500)]}

RECURSIVE Gcd(_, _)
Gcd(x, y) == IF y = 0 THEN x ELSE Gcd(y, x % y)

\* sum / count, kept as a fraction in lowest terms
Mean(sum, count) ==
  LET g == Gcd(IF sum < 0 THEN 0 - sum ELSE sum, count)
  IN  [num |-> sum \div g, den |-> count \div g]

RECURSIVE SumLat(_)
SumLat(locations) ==
  IF locations = <<>> THEN 0 ELSE Head(locations).lat + SumLat(Tail(locations))

RECURSIVE SumLng(_)
SumLng(locations) ==
  IF locations = <<>> THEN 0 ELSE Head(locations).lng + SumLng(Tail(locations))

\* the geographic center of the participants that have coordinates
calculateOptimalLocation(ps) ==
  IF Len(ps) = 0 THEN Null
  ELSE LET locations == ParticipantCoordinates(ps)
       IN  IF Len(locations) = 0 THEN Null
           ELSE [coordinates |->
                   [lat |-> Mean(SumLat(locations), Len(locations)),
                    lng |-> Mean(SumLng(locations), Len(locations))],
                 buildingAbbr |-> "CENTER"]

\* Math.max(...this.availableDays.map(d => new Date(d)))
RECURSIVE LatestDay(_)
LatestDay(days) ==
  IF Len(days) = 1 THEN Head(days)
  ELSE LET rest == LatestDay(Tail(days))
       IN  IF Head(days) > rest THEN Head(days) ELSE rest

\* meetingSchema.methods.isExpired
isExpired(m) ==
  IF Len(m.availableDays) = 0 THEN FALSE
  ELSE now > LatestDay(m.availableDays)

\* variant: the status set to 'expired' whatever it was
checkAndUpdateExpirationAnyStatus(m) ==
  IF isExpired(m)
  THEN [m EXCEPT !.status = "expired"]
  ELSE m

\* meetingSchema.methods.checkAndUpdateExpiration: the status it leaves
checkAndUpdateExpiration(m) ==
  IF m.status = "active" /\ isExpired(m)
  THEN [m EXCEPT !.status = "expired"]
  ELSE m

Idle == [pc |-> "idle", participant |-> Null, snapshot |-> <<>>]

InitServer ==
  /\ participants = <<>>
  /\ meeting \in [creatorLocation : {NoLocation},
                   status : {"active"},
                   availableDays : {<<>>, <<1, 0>>},
                   optimalLocation : {Null}]
  /\ optimalTime = Null
  /\ optimalLocations = Pending
  /\ requests = [c \in Clients |-> Idle]
  /\ now = 0
  /\ measured = Pending
  /\ records = {}
  /\ timeSlots = Pending
  /\ display = Pending

\* time passes
Tick ==
  /\ now < MaxNow
  /\ now' = now + 1
  /\ UNCHANGED <<participants, meeting, optimalTime, optimalLocations,
                 requests, measured>>
  /\ UNCHANGED storeVars

\* router.get('/:shareLink'), called by fetchMeeting when the page opens and
\* after a submission: 410 for an expired meeting, the meeting otherwise
GetMeeting(c) ==
  /\ requests[c].pc \in {"idle", "recalculated"}
  /\ meeting' = checkAndUpdateExpiration(meeting)
  /\ requests' =
       [requests EXCEPT ![c].pc =
          IF meeting'.status = "expired" THEN "refused"
          ELSE IF requests[c].pc = "idle" THEN "viewing" ELSE "submitted"]
  /\ UNCHANGED <<participants, optimalTime, optimalLocations, now, measured>>
  /\ UNCHANGED storeVars

\* router.post('/') of the participants router, up to
\* await Meeting.findById(meetingId): the meeting exists
PostFind(c) ==
  /\ requests[c].pc = "viewing"
  /\ \E a \in ClientSelections, l \in ClientLocations :
       requests' = [requests EXCEPT ![c].pc = "posting",
                                    ![c].participant = Participant(a, l)]
  /\ UNCHANGED <<participants, meeting, optimalTime, optimalLocations,
                 now, measured>>
  /\ UNCHANGED storeVars

\* the rest of router.post('/'): participant.save(), then
\* meeting.participants.push(participant._id) and meeting.save(), which
\* adds the id to the stored array
PostSave(c) ==
  /\ requests[c].pc = "posting"
  /\ participants' = Append(participants, requests[c].participant)
  /\ requests' = [requests EXCEPT ![c].pc = "posted"]
  /\ UNCHANGED <<meeting, optimalTime, optimalLocations, now, measured>>
  /\ UNCHANGED storeVars

\* router.put('/:shareLink'), up to
\* await Meeting.findOne(...).populate('participants')
PutRead(c) ==
  /\ requests[c].pc = "posted"
  /\ requests' = [requests EXCEPT ![c].pc = "putting",
                                  ![c].snapshot = participants]
  /\ UNCHANGED <<participants, meeting, optimalTime, optimalLocations,
                 now, measured>>
  /\ UNCHANGED storeVars

\* the rest of router.put('/:shareLink'): both results computed from the
\* participants that were read, and meeting.save() stores the two
PutSave(c) ==
  /\ requests[c].pc = "putting"
  /\ optimalTime' = calculateOptimalTime(requests[c].snapshot)
  /\ meeting' = [meeting EXCEPT !.optimalLocation =
                    calculateOptimalLocation(requests[c].snapshot)]
  /\ requests' = [requests EXCEPT ![c].pc = "recalculated"]
  /\ UNCHANGED <<participants, optimalLocations, now, measured>>
  /\ UNCHANGED storeVars

NextServer ==
  \/ Tick
  \/ \E c \in Clients : GetMeeting(c)
  \/ \E c \in Clients : PostFind(c)
  \/ \E c \in Clients : PostSave(c)
  \/ \E c \in Clients : PutRead(c)
  \/ \E c \in Clients : PutSave(c)

SpecServer == InitServer /\ [][NextServer]_vars

(***************************************************************************)
(* The same requests on a meeting of any status, together with the         *)
(* organizer's dashboard, whose list of meetings runs                      *)
(* checkAndUpdateExpiration on each of them.                               *)
(***************************************************************************)
\* the enum of meetingSchema.status
Statuses == {"active", "completed", "cancelled", "expired"}

InitExpiry ==
  /\ participants = <<>>
  /\ meeting \in [creatorLocation : {NoLocation},
                   status : Statuses,
                   availableDays : {<<>>, <<1, 0>>},
                   optimalLocation : {Null}]
  /\ optimalTime = Null
  /\ optimalLocations = Pending
  /\ requests = [c \in Clients |-> Idle]
  /\ now = 0
  /\ measured = Pending
  /\ records = {}
  /\ timeSlots = Pending
  /\ display = Pending

\* router.get('/my-meetings'):
\* await Promise.all(meetings.map(meeting => meeting.checkAndUpdateExpiration()))
GetMyMeetings ==
  /\ meeting' = checkAndUpdateExpiration(meeting)
  /\ UNCHANGED <<participants, optimalTime, optimalLocations>>
  /\ UNCHANGED serverVars

NextExpiry == NextServer \/ GetMyMeetings

SpecExpiry == InitExpiry /\ [][NextExpiry]_vars

(***************************************************************************)
(* The availability grid and the meeting page.  The grid has one row per   *)
(* entry of generateTimeSlots, its cell in row i is time index i; the page *)
(* shows a range from timeIndexToString(startTimeIndex) to                 *)
(* timeIndexToString(endTimeIndex + 1).  Times are 'HH:MM' strings, held   *)
(* as sequences of characters.                                             *)
(***************************************************************************)
\* s.padStart(2, '0') of a number's digits
PadStart2(digits) == IF Len(digits) < 2 THEN <<"0">> \o digits ELSE digits

\* an 'HH:MM' string as <input type="time"> gives it
TimeString(hour, minute) ==
  PadStart2(NumberToString(hour)) \o <<":">> \o PadStart2(NumberToString(minute))

\* s.split(':'): the pieces of s between the ':' characters
RECURSIVE SplitColon(_, _, _)
SplitColon(s, piece, pieces) ==
  IF s = <<>> THEN Append(pieces, piece)
  ELSE IF Head(s) = ":" THEN SplitColon(Tail(s), <<>>, Append(pieces, piece))
  ELSE SplitColon(Tail(s), Append(piece, Head(s)), pieces)

\* const [hour, min] = time.split(':').map(Number)
ParseTime(time) ==
  LET pieces == SplitColon(time, <<>>, <<>>)
  IN  [hour |-> ToNumber(pieces[1], 0), min |-> ToNumber(pieces[2], 0)]

\* the row label `${hour12}:${currentMin.toString().padStart(2, '0')} ${ampm}`
TimeLabel(currentHour, currentMin) ==
  LET hour12 == IF currentHour > 12 THEN currentHour - 12
                ELSE IF currentHour = 0 THEN 12 ELSE currentHour
      ampm == IF currentHour >= 12 THEN <<"P", "M">> ELSE <<"A", "M">>
  IN  NumberToString(hour12) \o <<":">> \o PadStart2(NumberToString(currentMin))
        \o <<" ">> \o ampm

\* the while loop of generateTimeSlots: a row for every half hour from the
\* start while the row's time is not after the end time
RECURSIVE TimeSlotLoop(_, _, _, _, _)
TimeSlotLoop(currentHour, currentMin, endHour, endMin, slots) ==
  IF currentHour < endHour \/ (currentHour = endHour /\ currentMin <= endMin)
  THEN LET nextMin == currentMin + 30
       IN  IF nextMin >= 60
           THEN TimeSlotLoop(currentHour + 1, 0, endHour, endMin,
                             Append(slots, TimeLabel(currentHour, currentMin)))
           ELSE TimeSlotLoop(currentHour, nextMin, endHour, endMin,
                             Append(slots, TimeLabel(currentHour, currentMin)))
  ELSE slots

generateTimeSlots(timeRange) ==
  LET start == ParseTime(timeRange.startTime)
      end == ParseTime(timeRange.endTime)
  IN  TimeSlotLoop(start.hour, start.min, end.hour, end.min, <<>>)

\* timeIndexToString of the meeting page
timeIndexToString(m, timeIndex) ==
  LET start == ParseTime(m.timeRange.startTime)
      totalMinutes == start.hour * 60 + start.min + (timeIndex * 30)
      hours == totalMinutes \div 60
      minutes == totalMinutes % 60
  IN  TimeString(hours, minutes)

\* getOptimalTimeDisplay: the start and the end shown for every range
getOptimalTimeDisplay(m, slots) ==
  [k \in 1..Len(slots) |->
     [startTime |-> timeIndexToString(m, slots[k].startTimeIndex),
      endTime |-> timeIndexToString(m, slots[k].endTimeIndex + 1)]]

\* the hours and minutes the organizer's two time inputs take here
MinHour == 9

MaxHour == 10

WindowMinutes == {0, 15, 30}

WindowTimes == {TimeString(h, m) : h \in MinHour..MaxHour, m \in WindowMinutes}

\* a meeting as the creation form posts it: one day, any two times
InitGrid ==
  /\ participants = <<>>
  /\ meeting \in [creatorLocation : {NoLocation},
                   timeRange : [startTime : WindowTimes, endTime : WindowTimes]]
  /\ optimalTime = Pending
  /\ optimalLocations = Pending
  /\ requests = <<>>
  /\ now = 0
  /\ measured = Pending
  /\ records = {}
  /\ timeSlots = Pending
  /\ display = Pending

\* AvailabilityGrid renders: const timeSlots = generateTimeSlots()
GenerateTimeSlots ==
  /\ timeSlots = Pending
  /\ timeSlots' = [kind |-> "rows", rows |-> generateTimeSlots(meeting.timeRange)]
  /\ UNCHANGED <<participants, meeting, optimalTime, optimalLocations,
                 requests, now, measured, records, display>>

\* the cells of the grid: row i of the single day is slot (0, i)
GridCells == {Slot(0, i - 1) : i \in 1..Len(timeSlots.rows)}

\* a participant selects one or two cells of the grid and submits them
SubmitGridAvailability ==
  /\ timeSlots # Pending
  /\ optimalTime = Pending
  /\ Len(participants) < 1
  /\ \E a \in {<<s>> : s \in GridCells}
            \cup {q \in GridCells \X GridCells : q[1] # q[2]} :
       participants' = Append(participants, Participant(a, NoLocation))
  /\ UNCHANGED <<meeting, optimalTime, optimalLocations,
                 requests, now, measured, records, timeSlots, display>>

\* the meeting page shows the stored recommendation
GetOptimalTimeDisplay ==
  /\ optimalTime # Pending
  /\ optimalTime # Null
  /\ display = Pending
  /\ display' = [kind |-> "shown",
                 ranges |-> getOptimalTimeDisplay(meeting, optimalTime.slots)]
  /\ UNCHANGED <<participants, meeting, optimalTime, optimalLocations,
                 requests, now, measured, records, timeSlots>>

NextGrid ==
  \/ GenerateTimeSlots
  \/ SubmitGridAvailability
  \/ CalculateOptimalTime
  \/ GetOptimalTimeDisplay

SpecGrid == InitGrid /\ [][NextGrid]_vars

(***************************************************************************)
(* The Participant collection and the meeting that refers to it.  records  *)
(* is the collection; here participants is the stored meeting's            *)
(* participants array as it is kept, a list of Participant ids, and        *)
(* meeting is the stored Meeting document, Null once it is deleted.  A     *)
(* request runs one handler, a step per awaited database operation, and    *)
(* the steps of different requests interleave.  req.user is a user's       *)
(* number, 0 for a request without a login; with 0 the POST handler of     *)
(* part_005 is the one of routes/participants.js.  A participant's id is   *)
(* the number of the request that created it.                              *)
(***************************************************************************)
MaxRequests == 3

MaxUsers == 1

Requests == 1..MaxRequests

Users == 0..MaxUsers

MeetingId == 1

StoredMeeting == [kind |-> "meeting", id |-> MeetingId]

NotStarted == [op |-> "none", pc |-> "idle", user |-> 0, target |-> 0]

\* new Participant({meetingId, userId, name, availability, location, notes})
ParticipantRecord(id, user, availability, location, notes, at) ==
  [id |-> id, meetingId |-> MeetingId, userId |-> user,
   availability |-> availability, location |-> location, notes |-> notes,
   updatedAt |-> at]

InitStore ==
  /\ participants = <<>>
  /\ meeting = StoredMeeting
  /\ optimalTime = Pending
  /\ optimalLocations = Pending
  /\ requests = [r \in Requests |-> NotStarted]
  /\ now = 0
  /\ measured = Pending
  /\ records = {}
  /\ timeSlots = Pending
  /\ display = Pending

\* what a step of a handler leaves alone besides the store
StoreFrame == UNCHANGED <<optimalTime, optimalLocations, now, measured,
                          timeSlots, display>>

\* router.post('/') up to await Meeting.findById(meetingId): 404 without
\* the meeting
PostFindMeeting(r) ==
  /\ requests[r].pc = "idle"
  /\ \E u \in Users :
       requests' = [requests EXCEPT ![r] =
          [op |-> "post", user |-> u, target |-> 0,
           pc |-> IF meeting = Null THEN "notFound"
                  ELSE IF u # 0 THEN "findEntry" ELSE "saveParticipant"]]
  /\ UNCHANGED <<participants, meeting, records>>
  /\ StoreFrame

\* if (req.user): await Participant.findOne({meetingId, userId}), 400 when
\* the user has an entry
PostFindEntry(r) ==
  /\ requests[r].pc = "findEntry"
  /\ requests' = [requests EXCEPT ![r].pc =
        IF \E rec \in records : /\ rec.meetingId = MeetingId
                                /\ rec.userId = requests[r].user
        THEN "rejected" ELSE "saveParticipant"]
  /\ UNCHANGED <<participants, meeting, records>>
  /\ StoreFrame

\* new Participant(...) and await participant.save()
PostSaveParticipant(r) ==
  /\ requests[r].pc = "saveParticipant"
  /\ records' = records \cup
        {ParticipantRecord(r, requests[r].user, <<Slot(0, 0)>>, NoLocation, "", now)}
  /\ requests' = [requests EXCEPT ![r].pc = "pushId"]
  /\ UNCHANGED <<participants, meeting>>
  /\ StoreFrame

\* meeting.participants.push(participant._id) and await meeting.save():
\* the id is added to the stored array; the save fails when the meeting
\* document is no longer there
PostPushId(r) ==
  /\ requests[r].pc = "pushId"
  /\ IF meeting = Null
     THEN /\ requests' = [requests EXCEPT ![r].pc = "failed"]
          /\ UNCHANGED participants
     ELSE /\ participants' = Append(participants, r)
          /\ requests' = [requests EXCEPT ![r].pc = "created"]
  /\ UNCHANGED <<meeting, records>>
  /\ StoreFrame

\* router.delete('/:id') up to await Participant.findById: 404 without
\* the participant
DeleteFind(r) ==
  /\ requests[r].pc = "idle"
  /\ \E id \in Requests :
       requests' = [requests EXCEPT ![r] =
          [op |-> "delete", user |-> 0, target |-> id,
           pc |-> IF \E rec \in records : rec.id = id
                  THEN "pull" ELSE "notFound"]]
  /\ UNCHANGED <<participants, meeting, records>>
  /\ StoreFrame

\* await Meeting.findByIdAndUpdate(meetingId, {$pull: {participants: _id}})
DeletePull(r) ==
  /\ requests[r].pc = "pull"
  /\ participants' = SelectSeq(participants, LAMBDA id : id # requests[r].target)
  /\ requests' = [requests EXCEPT ![r].pc = "deleteOne"]
  /\ UNCHANGED <<meeting, records>>
  /\ StoreFrame

\* await Participant.deleteOne({_id: req.params.id})
DeleteOne(r) ==
  /\ requests[r].pc = "deleteOne"
  /\ records' = {rec \in records : rec.id # requests[r].target}
  /\ requests' = [requests EXCEPT ![r].pc = "deleted"]
  /\ UNCHANGED <<participants, meeting>>
  /\ StoreFrame

\* router.delete('/:shareLink') up to await Meeting.findOne: 404 without
\* the meeting
DeleteMeetingFind(r) ==
  /\ requests[r].pc = "idle"
  /\ requests' = [requests EXCEPT ![r] =
        [op |-> "deleteMeeting", user |-> 0, target |-> 0,
         pc |-> IF meeting = Null THEN "notFound" ELSE "deleteMany"]]
  /\ UNCHANGED <<participants, meeting, records>>
  /\ StoreFrame

\* await Participant.deleteMany({meetingId: meeting._id})
DeleteMeetingParticipants(r) ==
  /\ requests[r].pc = "deleteMany"
  /\ records' = {rec \in records : rec.meetingId # MeetingId}
  /\ requests' = [requests EXCEPT ![r].pc = "deleteMeeting"]
  /\ UNCHANGED <<participants, meeting>>
  /\ StoreFrame

\* await Meeting.deleteOne({_id: meeting._id}): the document goes, and its
\* participants array with it
DeleteMeetingDocument(r) ==
  /\ requests[r].pc = "deleteMeeting"
  /\ meeting' = Null
  /\ participants' = <<>>
  /\ requests' = [requests EXCEPT ![r].pc = "meetingDeleted"]
  /\ UNCHANGED records
  /\ StoreFrame

NextStore ==
  \/ \E r \in Requests : PostFindMeeting(r)
  \/ \E r \in Requests : PostFindEntry(r)
  \/ \E r \in Requests : PostSaveParticipant(r)
  \/ \E r \in Requests : PostPushId(r)
  \/ \E r \in Requests : DeleteFind(r)
  \/ \E r \in Requests : DeletePull(r)
  \/ \E r \in Requests : DeleteOne(r)
  \/ \E r \in Requests : DeleteMeetingFind(r)
  \/ \E r \in Requests : DeleteMeetingParticipants(r)
  \/ \E r \in Requests : DeleteMeetingDocument(r)

SpecStore == InitStore /\ [][NextStore]_vars

(***************************************************************************)
(* PUT /api/participants/:id on stored participants: one entry linked to   *)
(* user 1 and one submitted without a login.  A request names an id, comes *)
(* from a user (0 without a login) and carries any of availability,        *)
(* location and notes; fields stands for the ones that are not undefined   *)
(* in req.body.  An update made by findByIdAndUpdate carries the keys      *)
(* that have a value (Mongoose strips undefined keys from an update).      *)
(***************************************************************************)
MaxEditRequests == 2

Editors == 1..MaxEditRequests

EditUsers == 0..2

\* the ids a request can name: the two stored entries and one that is not
EditTargets == 1..3

BodyFields == {"availability", "location", "notes"}

OldAvailability == <<Slot(0, 0)>>

NewAvailability == <<Slot(0, 1), Slot(1, 0)>>

OldLocation == [coordinates |-> Coordinates(4042600, -8691300)]

NewLocation == [coordinates |-> Coordinates(4042700, -8691500)]

OldNotes == ""

NewNotes == "after lunch"

NotEditing == [pc |-> "idle", user |-> 0, target |-> 0, fields |-> {}]

InitEdit ==
  /\ participants = <<1, 2>>
  /\ meeting = StoredMeeting
  /\ optimalTime = Pending
  /\ optimalLocations = Pending
  /\ requests = [r \in Editors |-> NotEditing]
  /\ now = 1
  /\ measured = Pending
  /\ records = {ParticipantRecord(1, 1, OldAvailability, OldLocation, OldNotes, 0),
                ParticipantRecord(2, 0, OldAvailability, OldLocation, OldNotes, 0)}
  /\ timeSlots = Pending
  /\ display = Pending

\* variant: a field the request leaves out is written as empty
ApplyUpdateAllFields(rec, fields, at) ==
  [rec EXCEPT
     !.availability = IF "availability" \in fields THEN NewAvailability ELSE <<>>,
     !.location = IF "location" \in fields THEN NewLocation ELSE NoLocation,
     !.notes = IF "notes" \in fields THEN NewNotes ELSE "",
     !.updatedAt = at]

\* updateData: a key for each field that is not undefined, and updatedAt
ApplyUpdate(rec, fields, at) ==
  [rec EXCEPT
     !.availability = IF "availability" \in fields THEN NewAvailability ELSE @,
     !.location = IF "location" \in fields THEN NewLocation ELSE @,
     !.notes = IF "notes" \in fields THEN NewNotes ELSE @,
     !.updatedAt = at]

\* Participant.findByIdAndUpdate(id, update): the collection afterwards
FindByIdAndUpdate(id, fields, at) ==
  {IF rec.id = id THEN ApplyUpdate(rec, fields, at) ELSE rec : rec \in records}

Stored(id) == \E rec \in records : rec.id = id

RecordOf(id) == CHOOSE rec \in records : rec.id = id

EditFrame == UNCHANGED <<participants, meeting, optimalTime, optimalLocations,
                         now, measured, timeSlots, display>>

\* router.put('/:id') of routes/participants.js: findByIdAndUpdate with
\* updateData, 404 when it returns no participant
PutUpdate(r) ==
  /\ requests[r].pc = "idle"
  /\ \E id \in EditTargets, u \in EditUsers, fields \in SUBSET BodyFields :
       /\ records' = FindByIdAndUpdate(id, fields, now)
       /\ requests' = [requests EXCEPT ![r] =
            [pc |-> IF Stored(id) THEN "ok" ELSE "notFound",
             user |-> u, target |-> id, fields |-> fields]]
  /\ EditFrame

\* the earlier router.put('/:id'): findByIdAndUpdate with
\* {availability, location}, 404 when it returns no participant
PutAvailabilityAndLocation(r) ==
  /\ requests[r].pc = "idle"
  /\ \E id \in EditTargets, u \in EditUsers, fields \in SUBSET BodyFields :
       /\ records' = FindByIdAndUpdate(id, fields \ {"notes"}, now)
       /\ requests' = [requests EXCEPT ![r] =
            [pc |-> IF Stored(id) THEN "ok" ELSE "notFound",
             user |-> u, target |-> id, fields |-> fields]]
  /\ EditFrame

NextEdit ==
  \/ \E r \in Editors : PutUpdate(r)
  \/ \E r \in Editors : PutAvailabilityAndLocation(r)

SpecEdit == InitEdit /\ [][NextEdit]_vars

\* variant: the entry's user is not compared with the caller
PutFindAnyUser(r) ==
  /\ requests[r].pc = "idle"
  /\ \E id \in EditTargets, u \in EditUsers, fields \in SUBSET BodyFields :
       requests' = [requests EXCEPT ![r] =
          [pc |-> IF ~ Stored(id) THEN "notFound"
                  ELSE IF RecordOf(id).userId # 0 /\ u = 0 THEN "unauthorized"
                  ELSE "update",
           user |-> u, target |-> id, fields |-> fields]]
  /\ UNCHANGED records
  /\ EditFrame

\* router.put('/:id') of part_005 up to the ownership check: 404 without
\* the participant, and for an entry linked to a user 401 without a login
\* and 403 for another user
PutFind(r) ==
  /\ requests[r].pc = "idle"
  /\ \E id \in EditTargets, u \in EditUsers, fields \in SUBSET BodyFields :
       requests' = [requests EXCEPT ![r] =
          [pc |-> IF ~ Stored(id) THEN "notFound"
                  ELSE IF RecordOf(id).userId # 0 /\ u = 0 THEN "unauthorized"
                  ELSE IF RecordOf(id).userId # 0 /\ RecordOf(id).userId # u
                       THEN "forbidden"
                  ELSE "update",
           user |-> u, target |-> id, fields |-> fields]]
  /\ UNCHANGED records
  /\ EditFrame

\* the rest of it: updateData and await Participant.findByIdAndUpdate
PutFindUpdate(r) ==
  /\ requests[r].pc = "update"
  /\ records' = FindByIdAndUpdate(requests[r].target, requests[r].fields, now)
  /\ requests' = [requests EXCEPT ![r].pc = "ok"]
  /\ EditFrame

NextOwnEdit ==
  \/ \E r \in Editors : PutFind(r)
  \/ \E r \in Editors : PutFindUpdate(r)

SpecOwnEdit == InitEdit /\ [][NextOwnEdit]_vars

(***************************************************************************)
(* Independent recount, used by the properties only: who has a slot, how   *)
(* many participants have it, and the slots a list of ranges covers.       *)
(***************************************************************************)
HasSlot(p, s) == \E i \in 1..Len(p.availability) : p.availability[i] = s

SubmittedSlots ==
  {participants[i].availability[j] :
     <<i, j>> \in {ij \in (1..Len(participants)) \X (1..MaxSlots + 1) :
                     ij[2] <= Len(participants[ij[1]].availability)}}

Recount(s) == Cardinality({i \in 1..Len(participants) : HasSlot(participants[i], s)})

CommonSlots == {s \in SubmittedSlots : Recount(s) = Len(participants)}

MaxRecount ==
  IF SubmittedSlots = {} THEN 0
  ELSE CHOOSE m \in 1..Len(participants) :
         /\ \E s \in SubmittedSlots : Recount(s) = m
         /\ \A s \in SubmittedSlots : Recount(s) <= m

RangeSlots(r) == {Slot(r.dayIndex, t) : t \in r.startTimeIndex..r.endTimeIndex}

CoveredSlots(ranges) == UNION {RangeSlots(ranges[i]) : i \in 1..Len(ranges)}

Returned == optimalTime # Pending

Recommended == optimalTime # Pending /\ optimalTime # Null

(***************************************************************************)
(* C1: if some slot is in every participant's availability, the result is  *)
(* a recommendation with everyoneAvailable = true and every returned       *)
(* range's participantCount is the number of participants.                 *)
(***************************************************************************)
C1_CommonSlotIsUniversal ==
  (Returned /\ CommonSlots # {}) =>
     /\ optimalTime # Null
     /\ optimalTime.everyoneAvailable = TRUE
     /\ \A i \in 1..Len(optimalTime.slots) :
          optimalTime.slots[i].participantCount = Len(participants)

C1_Witness ==
  /\ Returned
  /\ Len(participants) = 3
  /\ CommonSlots # {}
  /\ \E s \in SubmittedSlots : s \notin CommonSlots
  /\ optimalTime.everyoneAvailable = TRUE

(***************************************************************************)
(* C2 as stated: if no slot is in every participant's availability, the    *)
(* result is a recommendation with everyoneAvailable = false and every     *)
(* returned range's participantCount is the recounted maximum overlap.     *)
(***************************************************************************)
C2_Original ==
  (Returned /\ Len(participants) > 0 /\ CommonSlots = {}) =>
     /\ optimalTime # Null
     /\ optimalTime.everyoneAvailable = FALSE
     /\ \A i \in 1..Len(optimalTime.slots) :
          optimalTime.slots[i].participantCount = MaxRecount

(***************************************************************************)
(* C2 amended: if no slot is in every participant's availability and at    *)
(* least one participant has at least one slot, the result is a            *)
(* recommendation with everyoneAvailable = false and every returned        *)
(* range's participantCount is the recounted maximum overlap.              *)
(***************************************************************************)
C2_NoCommonSlotIsBestEffort ==
  (Returned /\ Len(participants) > 0 /\ CommonSlots = {} /\ SubmittedSlots # {}) =>
     /\ optimalTime # Null
     /\ optimalTime.everyoneAvailable = FALSE
     /\ \A i \in 1..Len(optimalTime.slots) :
          optimalTime.slots[i].participantCount = MaxRecount

C2_Witness ==
  /\ Returned
  /\ Len(participants) = 3
  /\ CommonSlots = {}
  /\ MaxRecount = 2
  /\ \E s \in SubmittedSlots : Recount(s) = 1
  /\ optimalTime.everyoneAvailable = FALSE

(***************************************************************************)
(* C3: in a best-effort result the ranges cover exactly the slots whose    *)
(* tally is the maximum tally: every tied slot, and no slot with less.     *)
(***************************************************************************)
C3_BestEffortCoversAllTies ==
  (Recommended /\ optimalTime.everyoneAvailable = FALSE) =>
     CoveredSlots(optimalTime.slots) =
        {s \in SubmittedSlots : Recount(s) = MaxRecount}

C3_Witness ==
  /\ Recommended
  /\ optimalTime.everyoneAvailable = FALSE
  /\ Len(optimalTime.slots) >= 2
  /\ MaxRecount = 2
  /\ \E s \in SubmittedSlots : Recount(s) < MaxRecount

(***************************************************************************)
(* C4: in a universal result the ranges cover exactly the slots that are   *)
(* in every participant's availability.                                    *)
(***************************************************************************)
C4_UniversalCoversCommonOnly ==
  (Recommended /\ optimalTime.everyoneAvailable = TRUE) =>
     CoveredSlots(optimalTime.slots) = CommonSlots

\* the scenario {(0,4)}, {(0,4),(0,5)}, {(0,4)} with the time indices
\* shifted into the grid of the model: {(0,1)}, {(0,1),(0,2)}, {(0,1)}
C4_Witness ==
  /\ Returned
  /\ participants = <<Participant(<<Slot(0, 1)>>, NoLocation),
                      Participant(<<Slot(0, 1), Slot(0, 2)>>, NoLocation),
                      Participant(<<Slot(0, 1)>>, NoLocation)>>
  /\ optimalTime.everyoneAvailable = TRUE
  /\ optimalTime.slots =
       <<[dayIndex |-> 0, startTimeIndex |-> 1, endTimeIndex |-> 1,
          participantCount |-> 3, everyoneAvailable |-> TRUE]>>

(***************************************************************************)
(* C5: grouping is maximal and idempotent: no two returned ranges of one   *)
(* day are adjacent (one starting right after the other ends), and         *)
(* grouping the slots of the returned ranges again gives the same ranges.  *)
(***************************************************************************)
RangeAsSlots(r) ==
  [k \in 1..(r.endTimeIndex - r.startTimeIndex + 1) |->
     [dayIndex |-> r.dayIndex, timeIndex |-> r.startTimeIndex + k - 1,
      participantCount |-> r.participantCount,
      everyoneAvailable |-> r.everyoneAvailable]]

RECURSIVE RangesAsSlots(_)
RangesAsSlots(ranges) ==
  IF ranges = <<>> THEN <<>>
  ELSE RangeAsSlots(Head(ranges)) \o RangesAsSlots(Tail(ranges))

C5_GroupingMaximalIdempotent ==
  Recommended =>
     /\ \A i, j \in 1..Len(optimalTime.slots) :
          ~ (/\ optimalTime.slots[i].dayIndex = optimalTime.slots[j].dayIndex
             /\ optimalTime.slots[i].startTimeIndex =
                  optimalTime.slots[j].endTimeIndex + 1)
     /\ groupConsecutiveSlots(RangesAsSlots(optimalTime.slots)) = optimalTime.slots

C5_Witness ==
  /\ Recommended
  /\ Len(optimalTime.slots) >= 2
  /\ \E i \in 1..Len(optimalTime.slots) :
       optimalTime.slots[i].endTimeIndex > optimalTime.slots[i].startTimeIndex

(***************************************************************************)
(* C6: the returned ranges do not overlap (no slot is in two of them),     *)
(* each has endTimeIndex >= startTimeIndex, and they are listed in         *)
(* ascending order of (dayIndex, startTimeIndex).                          *)
(***************************************************************************)
C6_RangesDisjointOrdered ==
  Recommended =>
     /\ \A i \in 1..Len(optimalTime.slots) :
          optimalTime.slots[i].endTimeIndex >= optimalTime.slots[i].startTimeIndex
     /\ \A i, j \in 1..Len(optimalTime.slots) :
          i # j => RangeSlots(optimalTime.slots[i]) \cap
                   RangeSlots(optimalTime.slots[j]) = {}
     /\ \A i \in 1..Len(optimalTime.slots) - 1 :
          \/ optimalTime.slots[i].dayIndex < optimalTime.slots[i + 1].dayIndex
          \/ /\ optimalTime.slots[i].dayIndex = optimalTime.slots[i + 1].dayIndex
             /\ optimalTime.slots[i].startTimeIndex <
                  optimalTime.slots[i + 1].startTimeIndex

\* two ranges on one day and one on the other, from selections made out of order
C6_Witness ==
  /\ Recommended
  /\ Len(optimalTime.slots) >= 3
  /\ optimalTime.slots[1].dayIndex = optimalTime.slots[2].dayIndex
  /\ \E i \in 1..Len(participants) :
       /\ Len(participants[i].availability) = 2
       /\ CompareSlots(participants[i].availability[1],
                       participants[i].availability[2]) > 0

(***************************************************************************)
(* C7: every returned range carries a uniform count: each slot between its *)
(* startTimeIndex and endTimeIndex is in the availability of exactly       *)
(* participantCount participants.                                          *)
(***************************************************************************)
C7_RangeCountUniform ==
  Recommended =>
     \A i \in 1..Len(optimalTime.slots) :
        \A s \in RangeSlots(optimalTime.slots[i]) :
           Recount(s) = optimalTime.slots[i].participantCount

C7_Witness ==
  /\ Recommended
  /\ Len(participants) = 3
  /\ \E i \in 1..Len(optimalTime.slots) :
       /\ optimalTime.slots[i].endTimeIndex > optimalTime.slots[i].startTimeIndex
       /\ optimalTime.slots[i].participantCount = 2
  /\ \E s \in SubmittedSlots : Recount(s) = 1

(***************************************************************************)
(* C8: the result is null exactly when the participant list is empty or    *)
(* every participant's availability is empty; otherwise it is a            *)
(* recommendation with at least one range.                                 *)
(***************************************************************************)
C8_NullIffNoAvailability ==
  Returned =>
     /\ (optimalTime = Null) <=> (SubmittedSlots = {})
     /\ (optimalTime # Null) => Len(optimalTime.slots) >= 1

C8_Witness ==
  /\ Returned
  /\ Len(participants) = 2
  /\ SubmittedSlots = {}
  /\ optimalTime = Null

LocationsReturned == optimalLocations # Pending

(***************************************************************************)
(* C9: the returned ranking is in ascending order of avgDistance: each     *)
(* entry's avgDistance is at most the next entry's.                        *)
(***************************************************************************)
C9_SortedByAvgDistance ==
  LocationsReturned =>
     \A i \in 1..Len(optimalLocations) - 1 :
        optimalLocations[i].avgDistance <= optimalLocations[i + 1].avgDistance

\* a ranking that rises in avgDistance while its fairnessScore goes down:
\* the order is not the order of the fairness scores
C9_Witness ==
  /\ LocationsReturned
  /\ Len(optimalLocations) = TopK
  /\ \E i \in 1..Len(optimalLocations) - 1 :
       /\ optimalLocations[i].avgDistance < optimalLocations[i + 1].avgDistance
       /\ optimalLocations[i].fairnessScore > optimalLocations[i + 1].fairnessScore

(***************************************************************************)
(* C10 as stated: in every returned entry fairnessScore equals the entry's *)
(* maxDistance minus the entry's avgDistance.                              *)
(***************************************************************************)
C10_Original ==
  LocationsReturned =>
     \A i \in 1..Len(optimalLocations) :
        optimalLocations[i].fairnessScore =
           optimalLocations[i].maxDistance - optimalLocations[i].avgDistance

(***************************************************************************)
(* C10 amended: fairnessScore is the rounded difference of the unrounded   *)
(* maximum and mean, so in every returned entry it differs from the        *)
(* entry's maxDistance minus the entry's avgDistance by at most 1.         *)
(***************************************************************************)
C10_FairnessWithinOneMetre ==
  LocationsReturned =>
     \A i \in 1..Len(optimalLocations) :
        optimalLocations[i].fairnessScore -
          (optimalLocations[i].maxDistance - optimalLocations[i].avgDistance)
            \in {-1, 0, 1}

C10_Witness ==
  /\ LocationsReturned
  /\ \E i \in 1..Len(optimalLocations) :
       /\ optimalLocations[i].fairnessScore > 0
       /\ optimalLocations[i].fairnessScore #
            optimalLocations[i].maxDistance - optimalLocations[i].avgDistance

(***************************************************************************)
(* Independent recount of the location ranking, used by the properties     *)
(* only: who supplied coordinates, how many points that makes, and the     *)
(* total and the largest distance from a catalog entry to these points.    *)
(***************************************************************************)
Located(location) ==
  IF location = NoLocation THEN FALSE ELSE location.coordinates # Null

LocatedParticipants == {i \in 1..Len(participants) : Located(participants[i].location)}

CreatorLocated == Located(meeting.creatorLocation)

PointCount == Cardinality(LocatedParticipants) + (IF CreatorLocated THEN 1 ELSE 0)

SuppliedPoints ==
  {participants[i].location.coordinates : i \in LocatedParticipants}
    \cup (IF CreatorLocated THEN {meeting.creatorLocation.coordinates} ELSE {})

DistanceTo(b, point) == calculateDistance(b.lat, b.lng, point.lat, point.lng)

RECURSIVE TotalOver(_, _)
TotalOver(b, S) ==
  IF S = {} THEN 0
  ELSE LET i == CHOOSE j \in S : TRUE
       IN  DistanceTo(b, participants[i].location.coordinates)
             + TotalOver(b, S \ {i})

ExpectedTotal(b) ==
  TotalOver(b, LocatedParticipants)
    + (IF CreatorLocated THEN DistanceTo(b, meeting.creatorLocation.coordinates)
       ELSE 0)

ExpectedMax(b) ==
  LET D == {DistanceTo(b, point) : point \in SuppliedPoints}
  IN  CHOOSE d \in D : \A e \in D : e <= d

ExpectedAvgDistance(b) == Round(ExpectedTotal(b), 10 * PointCount)

ReturnedIds == {optimalLocations[i].id : i \in 1..Len(optimalLocations)}

(***************************************************************************)
(* C11: whenever at least one point is supplied, every returned entry has  *)
(* fairnessScore >= 0 and maxDistance >= avgDistance.                      *)
(***************************************************************************)
C11_FairnessNonNegative ==
  (LocationsReturned /\ PointCount > 0) =>
     \A i \in 1..Len(optimalLocations) :
        /\ optimalLocations[i].fairnessScore >= 0
        /\ optimalLocations[i].maxDistance >= optimalLocations[i].avgDistance

\* three points, the last of them not the farthest from some returned entry
C11_Witness ==
  /\ LocationsReturned
  /\ PointCount = 3
  /\ Cardinality(SuppliedPoints) = 3
  /\ \E i \in 1..Len(optimalLocations) :
       /\ optimalLocations[i].fairnessScore > 0
       /\ DistanceTo(optimalLocations[i], participants[2].location.coordinates)
            < DistanceTo(optimalLocations[i], participants[1].location.coordinates)

C13_NoPointsEmptyRanking ==
  (LocationsReturned /\ ~ CreatorLocated /\ LocatedParticipants = {}) =>
     optimalLocations = <<>>

\* one participant without a location, one with a location without coordinates
C13_Witness ==
  /\ LocationsReturned
  /\ meeting.creatorLocation = NoLocation
  /\ Len(participants) = 2
  /\ participants[1].location = NoLocation
  /\ participants[2].location = [coordinates |-> Null]
  /\ optimalLocations = <<>>

(***************************************************************************)
(* C14: whenever at least one point is supplied and a catalog entry has    *)
(* the coordinates of every supplied point, that entry has avgDistance 0   *)
(* and fairnessScore 0 and is the first entry of the ranking.              *)
(***************************************************************************)
C14_CoLocatedRankedFirst ==
  (LocationsReturned /\ PointCount > 0) =>
     \A k \in 1..Len(campusBuildings) :
        (\A point \in SuppliedPoints :
            /\ point.lat = campusBuildings[k].lat
            /\ point.lng = campusBuildings[k].lng) =>
           /\ Len(optimalLocations) >= 1
           /\ optimalLocations[1].id = campusBuildings[k].id
           /\ optimalLocations[1].avgDistance = 0
           /\ optimalLocations[1].fairnessScore = 0

(***************************************************************************)
(* C15: the points of the ranking are the creator's coordinates, if the    *)
(* meeting has them, and the coordinates of each participant that has      *)
(* them: every returned entry's avgDistance, maxDistance and totalDistance *)
(* are the mean, the largest and the total of the distances to exactly     *)
(* these points, and without such a point the ranking is empty.            *)
(***************************************************************************)
C15_RankedAgainstSuppliedPoints ==
  LocationsReturned =>
     IF PointCount = 0 THEN optimalLocations = <<>>
     ELSE \A i \in 1..Len(optimalLocations) :
             \E k \in 1..Len(campusBuildings) :
                /\ campusBuildings[k].id = optimalLocations[i].id
                /\ optimalLocations[i].avgDistance =
                     ExpectedAvgDistance(campusBuildings[k])
                /\ optimalLocations[i].totalDistance =
                     Round(ExpectedTotal(campusBuildings[k]), 10)
                /\ optimalLocations[i].maxDistance =
                     Round(ExpectedMax(campusBuildings[k]), 10)

\* the creator and one participant at two points, one participant without
C15_Witness ==
  /\ LocationsReturned
  /\ CreatorLocated
  /\ Len(participants) = 2
  /\ ~ Located(participants[1].location)
  /\ Located(participants[2].location)
  /\ participants[2].location.coordinates # meeting.creatorLocation.coordinates
  /\ Len(optimalLocations) = 5

(***************************************************************************)
(* C16: a slot with a negative dayIndex or timeIndex makes                 *)
(* calculateOptimalTime fail with a validation error: whenever a submitted *)
(* availability holds such a slot, the outcome is an error and not a       *)
(* recommendation (nor null).                                              *)
(***************************************************************************)
NegativeSlotSubmitted ==
  \E i \in 1..Len(participants) :
     \E j \in 1..Len(participants[i].availability) :
        \/ participants[i].availability[j].dayIndex < 0
        \/ participants[i].availability[j].timeIndex < 0

C16_MalformedInputRejected ==
  (Returned /\ NegativeSlotSubmitted) => optimalTime.kind = "error"

(***************************************************************************)
(* C17: calculateDistance gives the same distance from A to B as from B to *)
(* A, and the distance 0 from A to A.                                      *)
(***************************************************************************)
C17_DistanceSymmetric ==
  measured.kind = "distances" =>
     /\ measured.ab = measured.ba
     /\ measured.aa = 0

\* two points that differ in latitude and in longitude, some way apart
C17_Witness ==
  /\ measured.kind = "distances"
  /\ measured.a.lat # measured.b.lat
  /\ measured.a.lng # measured.b.lng
  /\ measured.ab > 10000
  /\ measured.aa = 0

SubmissionsComplete ==
  \A c \in Clients : requests[c].pc \notin {"posting", "posted", "putting"}

C19_RecommendationCurrent ==
  SubmissionsComplete => optimalTime = calculateOptimalTime(participants)

(***************************************************************************)
(* C20: once the meeting's status is 'expired', no step adds a participant *)
(* to it: the participants list stays as it is.                            *)
(***************************************************************************)
C20_ExpiredAcceptsNoParticipants ==
  [][meeting.status = "expired" => participants' = participants]_vars

(***************************************************************************)
(* C27: the tally key round-trips: every slot covered by a returned range  *)
(* is a slot of some participant's availability, with exactly those        *)
(* indices, negative indices included.                                     *)
(***************************************************************************)
C27_KeyRoundTrips ==
  Recommended =>
     \A s \in CoveredSlots(optimalTime.slots) : s \in SubmittedSlots

(***************************************************************************)
(* C28: everyoneAvailable is sound for every availability array, also one  *)
(* that lists a slot more than once: when it is true, every participant    *)
(* has every slot of every returned range, and no range's participantCount *)
(* is more than the number of participants.  Stated for arrays of          *)
(* non-negative indices, where every key parses back to its slot.          *)
(***************************************************************************)
C28_EveryoneAvailableSound ==
  (Recommended /\ ~ NegativeSlotSubmitted) =>
     /\ optimalTime.everyoneAvailable =>
          \A s \in CoveredSlots(optimalTime.slots) :
             \A i \in 1..Len(participants) : HasSlot(participants[i], s)
     /\ \A k \in 1..Len(optimalTime.slots) :
          optimalTime.slots[k].participantCount <= Len(participants)

(***************************************************************************)
(* C29: the recommendation does not depend on order: exchanging two        *)
(* neighbouring participants, or two neighbouring slots of one             *)
(* participant's availability, gives the same result (ranges in order,     *)
(* everyoneAvailable, message).  Every permutation is a chain of such      *)
(* exchanges and every list of the bounded input set is reached, so the    *)
(* result is the same under every permutation.                             *)
(***************************************************************************)
SwapAt(seq, i) ==
  [k \in 1..Len(seq) |->
     IF k = i THEN seq[i + 1] ELSE IF k = i + 1 THEN seq[i] ELSE seq[k]]

Reorderings ==
  {SwapAt(participants, i) : i \in 1..(Len(participants) - 1)}
  \cup
  {[participants EXCEPT ![ij[1]].availability = SwapAt(@, ij[2])] :
     ij \in {x \in (1..Len(participants)) \X (1..MaxSlots) :
               x[2] < Len(participants[x[1]].availability)}}

C29_OrderIndependent ==
  Returned => \A ps \in Reorderings : calculateOptimalTime(ps) = optimalTime

\* three participants with different availabilities, one of them listed
\* latest slot first, and a recommendation of more than one range
C29_Witness ==
  /\ Recommended
  /\ Len(participants) = 3
  /\ participants[1].availability # participants[2].availability
  /\ participants[2].availability # participants[3].availability
  /\ \E i \in 1..3 :
       /\ Len(participants[i].availability) = 2
       /\ CompareSlots(participants[i].availability[1],
                       participants[i].availability[2]) > 0
  /\ Len(optimalTime.slots) > 1
  /\ Cardinality(Reorderings) >= 4

(***************************************************************************)
(* C24: every slot of the grid lies within the meeting's daily window: for *)
(* each time index i of the grid the half hour that starts at              *)
(* startTime + 30*i ends no later than endTime, and the end time shown for *)
(* a range, timeIndexToString(endTimeIndex + 1), is never after endTime.   *)
(***************************************************************************)
MinutesOf(time) == LET t == ParseTime(time) IN t.hour * 60 + t.min

C24_SlotsWithinWindow ==
  /\ timeSlots # Pending =>
       \A i \in 0..(Len(timeSlots.rows) - 1) :
          /\ MinutesOf(timeIndexToString(meeting, i))
               >= MinutesOf(meeting.timeRange.startTime)
          /\ MinutesOf(timeIndexToString(meeting, i + 1))
               <= MinutesOf(meeting.timeRange.endTime)
  /\ display # Pending =>
       \A k \in 1..Len(display.ranges) :
          MinutesOf(display.ranges[k].endTime)
            <= MinutesOf(meeting.timeRange.endTime)

(***************************************************************************)
(* C25: the status only moves from 'active' to 'expired': a step that      *)
(* changes the status starts at 'active', ends at 'expired' and is taken   *)
(* when the meeting has available days and the current time is after the   *)
(* latest of them; so a 'completed', 'cancelled' or 'expired' meeting      *)
(* keeps its status, no step returns an expired meeting to 'active', and a *)
(* meeting with no available days never expires.                           *)
(***************************************************************************)
PastLatestDay ==
  /\ Len(meeting.availableDays) > 0
  /\ \A i \in 1..Len(meeting.availableDays) : now > meeting.availableDays[i]

C21_DeletedMeetingHasNoRecords ==
  (\E r \in Requests : requests[r].pc = "meetingDeleted") =>
     \A rec \in records : rec.meetingId # MeetingId

(***************************************************************************)
(* C22: a logged-in user has at most one participant entry per meeting: in *)
(* every state, also after concurrent POST /api/participants of the same   *)
(* user, at most one record has a given meetingId and userId.              *)
(***************************************************************************)
C22_OneEntryPerUser ==
  \A u \in Users \ {0} :
     Cardinality({rec \in records :
                    rec.meetingId = MeetingId /\ rec.userId = u}) <= 1

(***************************************************************************)
(* C30: the meeting's participants list never holds a dangling reference:  *)
(* in every state reached by POST /api/participants and                    *)
(* DELETE /api/participants/:id requests, every id of the list is the id   *)
(* of a Participant record whose meetingId is the meeting.                 *)
(***************************************************************************)
C30_NoDanglingReference ==
  (\A r \in Requests : requests[r].op # "deleteMeeting") =>
     \A i \in 1..Len(participants) :
        \E rec \in records : /\ rec.id = participants[i]
                             /\ rec.meetingId = MeetingId

(***************************************************************************)
(* C23: an entry linked to a user is edited only by that user: a           *)
(* PUT /api/participants/:id for an entry whose userId is set is answered  *)
(* 401 when the caller is not logged in and 403 when the caller is another *)
(* user, the step that answers so changes no record, and a step that       *)
(* changes such an entry belongs to a request of the entry's user.         *)
(***************************************************************************)
C23_OnlyOwnerEdits ==
  [][/\ \A r \in Editors :
          (/\ requests[r].pc = "idle"
           /\ requests'[r].pc # "idle"
           /\ Stored(requests'[r].target)
           /\ RecordOf(requests'[r].target).userId # 0
           /\ requests'[r].user # RecordOf(requests'[r].target).userId)
          => /\ requests'[r].pc =
                  IF requests'[r].user = 0 THEN "unauthorized" ELSE "forbidden"
             /\ records' = records
     /\ \A r \in Editors :
          requests[r].pc \in {"unauthorized", "forbidden"} =>
             requests'[r] = requests[r]
     /\ \A rec \in records :
          (rec.userId # 0 /\ rec \notin records') =>
             \E r \in Editors : /\ requests[r].pc = "update"
                                /\ requests'[r].pc = "ok"
                                /\ requests[r].target = rec.id
                                /\ requests[r].user = rec.userId]_vars

\* the linked entry has been asked for by a caller without a login and by
\* another user, each with all three fields, and is as it was
C23_Witness ==
  /\ \E r \in Editors : /\ requests[r].pc = "unauthorized"
                        /\ requests[r].fields = BodyFields
  /\ \E r \in Editors : /\ requests[r].pc = "forbidden"
                        /\ requests[r].fields = BodyFields
  /\ ParticipantRecord(1, 1, OldAvailability, OldLocation, OldNotes, 0) \in records

(***************************************************************************)
(* C26: PUT /api/participants/:id changes only the fields the request      *)
(* carries: a step changes the availability, the location or the notes of  *)
(* a participant only for a request that names the participant and         *)
(* carries that field; a request for an id that is not stored is answered  *)
(* 404 and changes no participant; no step adds or removes a participant.  *)
(***************************************************************************)
C26_OnlyCarriedFieldsChange ==
  [][/\ {rec.id : rec \in records'} = {rec.id : rec \in records}
     /\ \A old \in records : \A new \in records' :
          old.id = new.id =>
             \A f \in BodyFields :
                new[f] # old[f] =>
                   \E r \in Editors : /\ requests[r].pc = "idle"
                                      /\ requests'[r].pc = "ok"
                                      /\ requests'[r].target = old.id
                                      /\ f \in requests'[r].fields
     /\ \A r \in Editors :
          (/\ requests[r].pc = "idle"
           /\ requests'[r].pc # "idle"
           /\ ~ Stored(requests'[r].target))
          => /\ requests'[r].pc = "notFound"
             /\ records' = records]_vars

\* one request that carried only notes has changed the first entry's notes
\* and nothing else of it, another was for an id that is not stored
C26_Witness ==
  /\ \E r \in Editors : /\ requests[r].pc = "ok"
                        /\ requests[r].target = 1
                        /\ requests[r].fields = {"notes"}
  /\ \E r \in Editors : /\ requests[r].pc = "notFound"
                        /\ requests[r].fields = BodyFields
  /\ ParticipantRecord(1, 1, OldAvailability, OldLocation, NewNotes, 1) \in records
  /\ ParticipantRecord(2, 0, OldAvailability, OldLocation, OldNotes, 0) \in records

====
